---- MODULE Spec2Model ----
(***************************************************************************)
(* Model of src/util-mem.h: the SC* allocation wrappers of suricata.       *)
(* Every wrapper calls one libc primitive and, when it fails, reads the    *)
(* atomic engine_stage: in SURICATA_INIT it logs two errors and exits,     *)
(* otherwise it hands NULL to its caller.                                  *)
(*                                                                         *)
(* Spec     : one thread calling every wrapper with every input, and the   *)
(*            stage writer beside it.                                      *)
(* SpecMT   : two threads calling SCMalloc, SCMallocAligned, SCFree and    *)
(*            SCFreeAligned concurrently, and the stage writer.            *)
(* SpecStr  : the two SCStrndup variants applied to byte buffers.          *)
(***************************************************************************)
EXTENDS Integers, Sequences, FiniteSets, TLC

\* ---------------------------------------------------------------- bounds
MaxBlocks == 2
MaxSize == 1
MaxStrLen == 2

\* ------------------------------------------------------ program constants
NULL == 0
NUL == 0
EXIT_FAILURE == 1

\* the values engine_stage takes, in the order the engine goes through them
Stages == <<"SURICATA_INIT", "SURICATA_RUNTIME", "SURICATA_DEINIT">>
SURICATA_INIT == Stages[1]

Main == {1}
Threads == {1, 2}
Blocks == 1..MaxBlocks
Sizes == 0..MaxSize
Chars == {1, 2}
Bytes == Chars \cup {NUL}
Aligns == {8, 16}

Min(i, j) == IF i < j THEN i ELSE j

\* C strings without their terminator, up to MaxStrLen characters
Strings == UNION {[1..k -> Chars] : k \in 0..MaxStrLen}
Lens == 0..(MaxStrLen + 1)

VARIABLES
    engine_stage,   \* the atomic lifecycle gate
    build,          \* the preprocessor choices of this build
    heap,           \* block -> who holds it and from which allocator family
    owned,          \* thread -> handles its callers hold
    th,             \* thread -> the macro instance it is executing
    log,            \* the SCLogError calls, in order
    exit_status,    \* <<>> while the process runs, <<status>> after exit()
    sp              \* SpecStr: the SCStrndup buffers

vars == <<engine_stage, build, heap, owned, th, log, exit_status, sp>>

\* ------------------------------------------------------------- the heap
Free == [by |-> 0, fam |-> "none"]
Held(t, fam) == [by |-> t, fam |-> fam]
FreeBlocks(h) == {blk \in Blocks : h[blk] = Free}

\* malloc / calloc / strdup / strndup / _mm_malloc: NULL, or a block that was free
malloc(h, t, fam) ==
    {<<h, NULL>>} \cup {<<[h EXCEPT ![blk] = Held(t, fam)], blk>> : blk \in FreeBlocks(h)}

\* realloc(x, a): x = NULL is malloc(a); otherwise the block stays, moves, or the
\* call fails and leaves x alone. realloc(x, 0) may also free x and return NULL.
realloc(h, t, x, a) ==
    IF x = NULL THEN malloc(h, t, "malloc")
    ELSE {<<h, x>>, <<h, NULL>>}
         \cup {<<[h EXCEPT ![x] = Free, ![blk] = Held(t, h[x].fam)], blk>> : blk \in FreeBlocks(h)}
         \cup (IF a = 0 THEN {<<[h EXCEPT ![x] = Free], NULL>>} ELSE {})

free(h, p) == IF p = NULL THEN h ELSE [h EXCEPT ![p] = Free]

\* posix_memalign(&ptrmem, b, a): <<heap, status, pointer>>. Besides success and
\* plain failure, a non-zero status may come with a pointer that was set.
posix_memalign(h, t, a) ==
    {<<h, 1, NULL>>}
    \cup {<<[h EXCEPT ![blk] = Held(t, "malloc")], st, blk>> : blk \in FreeBlocks(h), st \in {0, 1}}
    \cup (IF a = 0 THEN {<<h, 0, NULL>>} ELSE {})

\* ------------------------------------------------------------ the macros
Idle == [pc |-> "idle", op |-> "none", a |-> 0, b |-> 0, x |-> NULL, str |-> <<>>,
         ptrmem |-> NULL, r |-> 0, got |-> NULL, calls |-> 0,
         start |-> "unset", failed |-> FALSE, seen |-> "unread", ret |-> NULL]

strlen(s) == Len(s)

\* the posix branch testing the pointer alone
Failed_PointerOnly(bld, rec) == rec.ptrmem = NULL

\* the test of each macro on what its primitive produced
Failed(bld, rec) ==
    IF rec.op = "SCMallocAligned" /\ ~bld.win32
    THEN rec.r /= 0 \/ rec.ptrmem = NULL
    ELSE rec.ptrmem = NULL

\* the comparison inverted; the test always taken; the test never taken
IsInit_Inverted(stage) == stage /= SURICATA_INIT
IsInit_Always(stage) == TRUE
IsInit_Never(stage) == FALSE

\* SC_ATOMIC_GET(engine_stage) == SURICATA_INIT
IsInit(stage) == stage = SURICATA_INIT

\* the value of the statement expression
ReturnValue(rec) == rec.ptrmem

\* the macro instance right after its primitive returned
Called(op, a, b, x, str, ptr, r) ==
    [pc |-> "check", op |-> op, a |-> a, b |-> b, x |-> x, str |-> str,
     ptrmem |-> ptr, r |-> r, got |-> ptr, calls |-> 1,
     start |-> engine_stage, failed |-> FALSE, seen |-> "unread", ret |-> NULL]

\* the macro instance after it yielded its value: what its caller still holds
Done(rec, failed, seen) ==
    [Idle EXCEPT !.pc = "done", !.op = rec.op, !.r = rec.r, !.got = rec.got,
                 !.calls = rec.calls, !.failed = failed, !.seen = seen,
                 !.a = IF rec.op = "SCRealloc" THEN rec.a ELSE 0,
                 !.x = IF rec.op = "SCRealloc" THEN rec.x ELSE NULL,
                 !.start = IF failed THEN rec.start ELSE "unset",
                 !.ret = ReturnValue(rec)]

\* a primitive that succeeded: the macro skips its if and yields ptrmem at once
After(rec) == IF Failed(build, rec) THEN rec ELSE Done(rec, FALSE, "unread")

Outcome(h, own, rec) ==
    [heap |-> h, rec |-> rec,
     owned |-> IF rec.pc = "done" /\ rec.ret /= NULL THEN own \cup {rec.ret} ELSE own]

SCMallocOut(t, a) ==
    {Outcome(o[1], owned[t], After(Called("SCMalloc", a, 0, NULL, <<>>, o[2], 0))) :
        o \in malloc(heap, t, "malloc")}

SCCallocOut(t, nm, a) ==
    {Outcome(o[1], owned[t], After(Called("SCCalloc", a, nm, NULL, <<>>, o[2], 0))) :
        o \in malloc(heap, t, "malloc")}

\* SCRealloc releasing x itself when realloc fails
SCReallocOut_FreeOnFail(t, x, a) ==
    {Outcome(IF o[2] = NULL THEN free(o[1], x) ELSE o[1],
             IF x /= NULL /\ (o[2] = NULL \/ o[1][x] = Free) THEN owned[t] \ {x} ELSE owned[t],
             After(Called("SCRealloc", a, 0, x, <<>>, o[2], 0))) :
        o \in realloc(heap, t, x, a)}

\* SCRealloc refusing a NULL block
SCReallocOut_NullFails(t, x, a) ==
    {Outcome(o[1], IF x /= NULL /\ o[1][x] = Free THEN owned[t] \ {x} ELSE owned[t],
             After(Called("SCRealloc", a, 0, x, <<>>, o[2], 0))) :
        o \in IF x = NULL THEN {<<heap, NULL>>} ELSE realloc(heap, t, x, a)}

SCReallocOut(t, x, a) ==
    {Outcome(o[1], IF x /= NULL /\ o[1][x] = Free THEN owned[t] \ {x} ELSE owned[t],
             After(Called("SCRealloc", a, 0, x, <<>>, o[2], 0))) :
        o \in realloc(heap, t, x, a)}

SCStrdupOut(t, s) ==
    {Outcome(o[1], owned[t], After(Called("SCStrdup", 0, 0, NULL, s, o[2], 0))) :
        o \in malloc(heap, t, "malloc")}

\* both variants: malloc(_len + 1) without HAVE_STRNDUP, strndup(a, b) with it
SCStrndupOut(t, s, n) ==
    {Outcome(o[1], owned[t], After(Called("SCStrndup", 0, n, NULL, s, o[2], 0))) :
        o \in malloc(heap, t, "malloc")}

\* _mm_malloc on win32, posix_memalign elsewhere
SCMallocAlignedOut(t, a, b) ==
    IF build.win32
    THEN {Outcome(o[1], owned[t], After(Called("SCMallocAligned", a, b, NULL, <<>>, o[2], 0))) :
             o \in malloc(heap, t, "mm")}
    ELSE {Outcome(o[1], owned[t], After(Called("SCMallocAligned", a, b, NULL, <<>>, o[3], o[2]))) :
             o \in posix_memalign(heap, t, a)}

Ready(t) == exit_status = <<>> /\ th[t].pc \in {"idle", "done"}
Running(t, pc) == exit_status = <<>> /\ th[t].pc = pc

Apply(t, o) ==
    /\ heap' = o.heap
    /\ owned' = [owned EXCEPT ![t] = o.owned]
    /\ th' = [th EXCEPT ![t] = o.rec]
    /\ UNCHANGED <<engine_stage, build, log, exit_status, sp>>

SCMalloc(t, a) == Ready(t) /\ \E o \in SCMallocOut(t, a) : Apply(t, o)

SCCalloc(t, nm, a) == Ready(t) /\ \E o \in SCCallocOut(t, nm, a) : Apply(t, o)

SCRealloc(t, x, a) ==
    Ready(t) /\ x \in owned[t] \cup {NULL} /\ \E o \in SCReallocOut(t, x, a) : Apply(t, o)

SCStrdup(t, s) == Ready(t) /\ \E o \in SCStrdupOut(t, s) : Apply(t, o)

SCStrndup(t, s, n) == Ready(t) /\ \E o \in SCStrndupOut(t, s, n) : Apply(t, o)

SCMallocAligned(t, a, b) == Ready(t) /\ \E o \in SCMallocAlignedOut(t, a, b) : Apply(t, o)

Released(op) == [Idle EXCEPT !.pc = "done", !.op = op, !.calls = 1]

\* free(a); the caller passes NULL or a block it got from the malloc family
SCFree(t, x) ==
    /\ Ready(t)
    /\ x \in {blk \in owned[t] : heap[blk].fam = "malloc"} \cup {NULL}
    /\ heap' = free(heap, x)
    /\ owned' = [owned EXCEPT ![t] = @ \ {x}]
    /\ th' = [th EXCEPT ![t] = Released("SCFree")]
    /\ UNCHANGED <<engine_stage, build, log, exit_status, sp>>

\* _mm_free(a) on win32, free(a) elsewhere; the caller passes NULL or a block it
\* got from SCMallocAligned
SCFreeAligned(t, x) ==
    /\ Ready(t)
    /\ x \in {blk \in owned[t] : heap[blk].fam = IF build.win32 THEN "mm" ELSE "malloc"} \cup {NULL}
    /\ heap' = free(heap, x)
    /\ owned' = [owned EXCEPT ![t] = @ \ {x}]
    /\ th' = [th EXCEPT ![t] = Released("SCFreeAligned")]
    /\ UNCHANGED <<engine_stage, build, log, exit_status, sp>>

\* the byte count each macro passes to its first SCLogError
LoggedBytes(bld, rec) ==
    CASE rec.op = "SCMalloc" -> rec.a
      [] rec.op = "SCRealloc" -> rec.a
      [] rec.op = "SCCalloc" -> rec.a
      [] rec.op = "SCStrdup" -> strlen(rec.str)
      [] rec.op = "SCStrndup" -> IF bld.have_strndup THEN rec.b ELSE rec.b + 1
      [] rec.op = "SCMallocAligned" -> rec.a

LoggedName(rec) ==
    IF rec.op = "SCMallocAligned" THEN "SCMallocAligned(posix_memalign)" ELSE rec.op

MemAllocDiag(bld, rec, t) ==
    [cat |-> "SC_ERR_MEM_ALLOC", name |-> LoggedName(rec), bytes |-> LoggedBytes(bld, rec),
     align |-> IF rec.op = "SCMallocAligned" THEN <<rec.b>> ELSE <<>>, by |-> t]

FatalDiag(t) ==
    [cat |-> "SC_ERR_FATAL", name |-> "Out of memory", bytes |-> 0, align |-> <<>>, by |-> t]

\* the pointer forgotten without the free
PartialFree_Skip(h, rec) == h

\* posix SCMallocAligned: if (ptrmem != NULL) { free(ptrmem); ptrmem = NULL; }
PartialFree(h, rec) == free(h, rec.ptrmem)

FreePartial(t) ==
    /\ Running(t, "check")
    /\ Failed(build, th[t])
    /\ th[t].ptrmem /= NULL
    /\ heap' = PartialFree(heap, th[t])
    /\ th' = [th EXCEPT ![t].ptrmem = NULL]
    /\ UNCHANGED <<engine_stage, build, owned, log, exit_status, sp>>

\* the gate test written as an assignment
ReadGate_Assign(t) ==
    /\ Running(t, "check")
    /\ Failed(build, th[t])
    /\ th[t].ptrmem = NULL
    /\ engine_stage' = SURICATA_INIT
    /\ th' = [th EXCEPT ![t] = [@ EXCEPT !.pc = "log1", !.failed = TRUE,
                                         !.seen = SURICATA_INIT]]
    /\ UNCHANGED <<build, heap, owned, log, exit_status, sp>>

\* the primitive failed: read the gate; outside SURICATA_INIT the macro yields ptrmem
ReadGate(t) ==
    /\ Running(t, "check")
    /\ Failed(build, th[t])
    /\ th[t].ptrmem = NULL
    /\ th' = [th EXCEPT ![t] = IF IsInit(engine_stage)
                                 THEN [@ EXCEPT !.pc = "log1", !.failed = TRUE,
                                                !.seen = engine_stage]
                                 ELSE Done(@, TRUE, engine_stage)]
    /\ UNCHANGED <<engine_stage, build, heap, owned, log, exit_status, sp>>

LogMemAlloc(t) ==
    /\ Running(t, "log1")
    /\ log' = Append(log, MemAllocDiag(build, th[t], t))
    /\ th' = [th EXCEPT ![t].pc = "log2"]
    /\ UNCHANGED <<engine_stage, build, heap, owned, exit_status, sp>>

LogFatal(t) ==
    /\ Running(t, "log2")
    /\ log' = Append(log, FatalDiag(t))
    /\ th' = [th EXCEPT ![t].pc = "exit"]
    /\ UNCHANGED <<engine_stage, build, heap, owned, exit_status, sp>>

Exit(t) ==
    /\ Running(t, "exit")
    /\ exit_status' = <<EXIT_FAILURE>>
    /\ th' = [th EXCEPT ![t].pc = "exited"]
    /\ UNCHANGED <<engine_stage, build, heap, owned, log, sp>>

\* the startup code, the only writer of the gate
SetStage ==
    /\ exit_status = <<>>
    /\ \E i \in 1..(Len(Stages) - 1) :
        /\ engine_stage = Stages[i]
        /\ engine_stage' = Stages[i + 1]
    /\ UNCHANGED <<build, heap, owned, th, log, exit_status, sp>>

\* ------------------------------------------- SCStrndup on byte buffers
\* strlcpy(dst, src, siz): at most siz - 1 characters of src, then a terminator
strlcpy(dst, src, siz) ==
    IF siz = 0 THEN dst
    ELSE LET k == Min(strlen(src), siz - 1)
         IN [i \in 1..Len(dst) |-> IF i <= k THEN src[i] ELSE IF i = k + 1 THEN NUL ELSE dst[i]]

\* libc strndup(a, b): a buffer of min(strlen(a), b) + 1 bytes
strndup(src, n) ==
    LET k == Min(strlen(src), n)
    IN [i \in 1..(k + 1) |-> IF i <= k THEN src[i] ELSE NUL]

\* the copy bounded by _len instead of _len + 1
StrndupFallback_Short(src, n, mem) ==
    LET _len == n
        copied == strlcpy(mem, src, _len)
    IN [copied EXCEPT ![_len + 1] = NUL]

\* without HAVE_STRNDUP: malloc(_len + 1), strlcpy, *(ptrmem + _len) = '\0';
\* mem is what malloc handed out
StrndupFallback(src, n, mem) ==
    LET _len == n
        _scstrndup_len == _len + 1
        copied == strlcpy(mem, src, _scstrndup_len)
    IN [copied EXCEPT ![_len + 1] = NUL]

\* with HAVE_STRNDUP
StrndupPlatform(src, n) == strndup(src, n)

Terminated(buf) == \E i \in 1..Len(buf) : buf[i] = NUL

\* the string a reader of buf sees
CStr(buf) ==
    LET z == CHOOSE i \in 1..Len(buf) : buf[i] = NUL /\ \A j \in 1..(i - 1) : buf[j] /= NUL
    IN SubSeq(buf, 1, z - 1)

SpIdle == [pc |-> "off", src |-> <<>>, n |-> 0, mem |-> <<>>,
           manual |-> <<>>, platform |-> <<>>]

RunFallback ==
    /\ sp.pc = "args"
    /\ sp.manual = <<>>
    /\ sp' = [sp EXCEPT !.manual = StrndupFallback(sp.src, sp.n, sp.mem)]
    /\ UNCHANGED <<engine_stage, build, heap, owned, th, log, exit_status>>

RunPlatform ==
    /\ sp.pc = "args"
    /\ sp.platform = <<>>
    /\ sp' = [sp EXCEPT !.platform = StrndupPlatform(sp.src, sp.n)]
    /\ UNCHANGED <<engine_stage, build, heap, owned, th, log, exit_status>>

\* ------------------------------------------------------ specifications
InitShared ==
    /\ engine_stage = SURICATA_INIT
    /\ build \in [win32 : BOOLEAN, have_strndup : BOOLEAN]
    /\ heap = [blk \in Blocks |-> Free]
    /\ log = <<>>
    /\ exit_status = <<>>

Init ==
    /\ InitShared
    /\ owned = [t \in Main |-> {}]
    /\ th = [t \in Main |-> Idle]
    /\ sp = SpIdle

Steps(t) ==
    \/ FreePartial(t)
    \/ ReadGate(t)
    \/ LogMemAlloc(t)
    \/ LogFatal(t)
    \/ Exit(t)

Next ==
    \/ SetStage
    \/ \E t \in Main, a \in Sizes : SCMalloc(t, a)
    \/ \E t \in Main, nm \in Sizes, a \in Sizes : SCCalloc(t, nm, a)
    \/ \E t \in Main, x \in Blocks \cup {NULL}, a \in Sizes : SCRealloc(t, x, a)
    \/ \E t \in Main, s \in Strings : SCStrdup(t, s)
    \/ \E t \in Main, s \in Strings, n \in Lens : SCStrndup(t, s, n)
    \/ \E t \in Main, a \in Sizes, b \in Aligns : SCMallocAligned(t, a, b)
    \/ \E t \in Main, x \in Blocks \cup {NULL} : SCFree(t, x)
    \/ \E t \in Main, x \in Blocks \cup {NULL} : SCFreeAligned(t, x)
    \/ \E t \in Main : Steps(t)

Spec == Init /\ [][Next]_vars

InitMT ==
    /\ InitShared
    /\ owned = [t \in Threads |-> {}]
    /\ th = [t \in Threads |-> Idle]
    /\ sp = SpIdle

NextMT ==
    \/ SetStage
    \/ \E t \in Threads : SCMalloc(t, MaxSize)
    \/ \E t \in Threads, b \in Aligns : SCMallocAligned(t, MaxSize, b)
    \/ \E t \in Threads, x \in Blocks \cup {NULL} : SCFree(t, x)
    \/ \E t \in Threads, x \in Blocks \cup {NULL} : SCFreeAligned(t, x)
    \/ \E t \in Threads : Steps(t)

SpecMT == InitMT /\ [][NextMT]_vars

InitStr ==
    /\ InitShared
    /\ owned = [t \in Main |-> {}]
    /\ th = [t \in Main |-> Idle]
    /\ \E s \in Strings, n \in Lens :
        \E mem \in [1..(n + 1) -> Bytes] :
            sp = [pc |-> "args", src |-> s, n |-> n, mem |-> mem,
                  manual |-> <<>>, platform |-> <<>>]

NextStr == RunFallback \/ RunPlatform

SpecStr == InitStr /\ [][NextStr]_vars

\* ------------------------------------------------------------ properties
NonRelease == {"SCMalloc", "SCCalloc", "SCRealloc", "SCStrdup", "SCStrndup", "SCMallocAligned"}
OnFatalPath(rec) == rec.pc \in {"log1", "log2", "exit", "exited"}
LogOf(t) == SelectSeq(log, LAMBDA e : e.by = t)
Cats(sq) == [i \in 1..Len(sq) |-> sq[i].cat]
StageIdx(v) == CHOOSE i \in 1..Len(Stages) : Stages[i] = v

\* C1: a non-release operation whose primitive failed and whose gate read returned
\* SURICATA_INIT is on the fatal path and never yields a value; on that path the
\* thread emits the SC_ERR_MEM_ALLOC record, then the SC_ERR_FATAL record, and only
\* then leaves the process with the non-zero EXIT_FAILURE.
C1_FatalInInit ==
    /\ \A t \in DOMAIN th :
        LET rec == th[t] IN
        /\ rec.seen = SURICATA_INIT => rec.op \in NonRelease /\ OnFatalPath(rec) /\ rec.ret = NULL
        /\ OnFatalPath(rec) => rec.seen = SURICATA_INIT
        /\ rec.pc = "log1" => Cats(LogOf(t)) = <<>>
        /\ rec.pc = "log2" => Cats(LogOf(t)) = <<"SC_ERR_MEM_ALLOC">>
        /\ rec.pc \in {"exit", "exited"} => Cats(LogOf(t)) = <<"SC_ERR_MEM_ALLOC", "SC_ERR_FATAL">>
        /\ rec.pc = "exited" => exit_status = <<EXIT_FAILURE>> /\ exit_status[1] /= 0
    /\ exit_status /= <<>> => \E t \in DOMAIN th : th[t].pc = "exited"

C1_Witness == \E t \in DOMAIN th : th[t].pc = "exited" /\ th[t].op = "SCStrndup"

\* C2: a non-release operation whose primitive failed and whose gate read returned a
\* value other than SURICATA_INIT has returned NULL, has emitted no diagnostic and
\* has not terminated the process.
C2_NullOutsideInit ==
    \A t \in DOMAIN th :
        LET rec == th[t] IN
        rec.seen \notin {"unread", SURICATA_INIT} =>
            /\ rec.pc = "done" /\ rec.failed /\ rec.ret = NULL
            /\ LogOf(t) = <<>>
            /\ exit_status = <<>> \/ \E u \in DOMAIN th \ {t} : th[u].pc = "exited"

C2_Witness ==
    \E t \in DOMAIN th :
        /\ th[t].pc = "done" /\ th[t].failed /\ th[t].op = "SCCalloc"
        /\ th[t].seen = "SURICATA_DEINIT" /\ exit_status = <<>>

\* C3: an operation that returned a non-NULL handle made one call to its primitive,
\* the call succeeded (status 0 and a pointer, for posix_memalign), the handle is the
\* block that call produced, now held by the caller, and the thread logged nothing;
\* a failed operation never returns a handle.
C3_NoMaskedFailure ==
    \A t \in DOMAIN th :
        LET rec == th[t] IN
        /\ rec.calls <= 1
        /\ rec.failed => rec.ret = NULL
        /\ rec.pc = "done" /\ rec.ret /= NULL =>
            /\ rec.op \in NonRelease /\ ~rec.failed /\ rec.seen = "unread"
            /\ rec.ret = rec.got /\ rec.r = 0 /\ rec.calls = 1
            /\ heap[rec.ret].by = t /\ rec.ret \in owned[t]
            /\ LogOf(t) = <<>>

C3_Witness ==
    \E t \in DOMAIN th :
        /\ ~build.win32 /\ th[t].pc = "done" /\ th[t].op = "SCMallocAligned"
        /\ th[t].ret /= NULL /\ engine_stage = SURICATA_INIT

\* C4: every allocated block is either a handle its caller holds or the pointer of
\* a macro that has not yet tested it; once posix SCMallocAligned reports a failure
\* (the gate read, the diagnostics, the exit, the NULL return) the pointer that
\* posix_memalign left behind has been freed.
C4_PartialFailureReleased ==
    \A t \in DOMAIN th :
        LET rec == th[t] IN
        /\ \A blk \in Blocks :
            heap[blk].by = t => blk \in owned[t] \/ (rec.pc = "check" /\ rec.ptrmem = blk)
        /\ (OnFatalPath(rec) \/ (rec.pc = "done" /\ rec.failed)) /\ rec.got /= NULL =>
            rec.ptrmem = NULL /\ heap[rec.got].by /= t

C4_Witness ==
    \E t \in DOMAIN th :
        /\ th[t].op = "SCMallocAligned" /\ th[t].got /= NULL /\ th[t].r /= 0
        /\ th[t].pc = "done" /\ th[t].failed /\ heap[th[t].got] = Free

\* C5: a thread is on the fatal path only if its operation started while the gate
\* still held SURICATA_INIT and its read returned SURICATA_INIT; a failed operation
\* that returned NULL read a value other than SURICATA_INIT that the gate held
\* between the start of the operation and now. So a failure that starts after the
\* write never terminates the process.
C5_GateRace ==
    \A t \in DOMAIN th :
        LET rec == th[t] IN
        /\ OnFatalPath(rec) => rec.start = SURICATA_INIT /\ rec.seen = SURICATA_INIT
        /\ rec.pc = "done" /\ rec.failed =>
            /\ rec.ret = NULL /\ rec.seen \notin {"unread", SURICATA_INIT}
            /\ StageIdx(rec.start) <= StageIdx(rec.seen)
            /\ StageIdx(rec.seen) <= StageIdx(engine_stage)

C5_Witness ==
    \E t, u \in DOMAIN th :
        /\ th[t].pc = "exited" /\ engine_stage /= SURICATA_INIT
        /\ th[u].pc = "done" /\ th[u].failed /\ th[u].start = SURICATA_INIT

\* C6 as stated: after SCRealloc(x, a) on a live block x, x is no longer a live
\* block of the caller (other than as the handle returned), whatever the outcome.
C6_Original ==
    \A t \in DOMAIN th :
        LET rec == th[t] IN
        rec.pc = "done" /\ rec.op = "SCRealloc" /\ rec.x /= NULL =>
            rec.x \notin owned[t] \ {rec.ret}

\* C6 amended: after SCRealloc(x, a) on a live block x, if a handle is returned it
\* is the caller's only block left of the two (x is gone unless it is that handle);
\* if NULL is returned and a > 0, x is still a live block of the caller.
C6_Amended ==
    \A t \in DOMAIN th :
        LET rec == th[t] IN
        rec.pc = "done" /\ rec.op = "SCRealloc" /\ rec.x /= NULL =>
            /\ rec.ret /= NULL => rec.ret \in owned[t] /\ rec.x \notin owned[t] \ {rec.ret}
            /\ rec.ret = NULL /\ rec.a > 0 => rec.x \in owned[t] /\ heap[rec.x].by = t

C6_Witness ==
    \E t \in DOMAIN th :
        /\ th[t].pc = "done" /\ th[t].op = "SCRealloc" /\ th[t].x /= NULL
        /\ th[t].ret = NULL /\ th[t].a > 0 /\ th[t].x \in owned[t]

\* the bytes each operation asks its primitive for
Requested(bld, rec) ==
    CASE rec.op = "SCMalloc" -> rec.a
      [] rec.op = "SCRealloc" -> rec.a
      [] rec.op = "SCCalloc" -> rec.b * rec.a
      [] rec.op = "SCStrdup" -> strlen(rec.str) + 1
      [] rec.op = "SCStrndup" -> IF bld.have_strndup THEN Min(strlen(rec.str), rec.b) + 1
                                 ELSE rec.b + 1
      [] rec.op = "SCMallocAligned" -> rec.a

\* C7 as stated: the SC_ERR_MEM_ALLOC record of a thread carries the bytes its
\* operation requested, the count is the same in both SCStrndup variants, and the
\* aligned record carries the alignment.
C7_DiagnosticBytes ==
    \A t \in DOMAIN th :
        LET rec == th[t] IN
        rec.pc \in {"log2", "exit", "exited"} =>
            /\ LogOf(t)[1].bytes = Requested(build, rec)
            /\ LoggedBytes([build EXCEPT !.have_strndup = TRUE], rec)
                   = LoggedBytes([build EXCEPT !.have_strndup = FALSE], rec)
            /\ rec.op = "SCMallocAligned" => LogOf(t)[1].align = <<rec.b>>

\* C8: each SCStrndup variant leaves a terminated buffer whose string is the first
\* min(n, strlen(s)) characters of s, so both variants return the same string.
Prefix(src, n) == SubSeq(src, 1, Min(n, Len(src)))

C9_GateReadOnly ==
    [][/\ engine_stage' /= engine_stage =>
            UNCHANGED <<build, heap, owned, th, log, exit_status, sp>>
       /\ th' /= th =>
            /\ UNCHANGED <<engine_stage, build, sp>>
            /\ \E t \in DOMAIN th :
                \A u \in DOMAIN th \ {t} : th'[u] = th[u] /\ owned'[u] = owned[u]]_vars

C9_Witness ==
    \E t \in DOMAIN th :
        /\ th[t].pc = "done" /\ th[t].op = "SCFree"
        /\ engine_stage = "SURICATA_RUNTIME" /\ owned[t] /= {}

\* what a caller and the outside can tell of a macro instance, its name left out
Observable(rec) ==
    [pc |-> rec.pc, ptrmem |-> rec.ptrmem, r |-> rec.r, got |-> rec.got,
     calls |-> rec.calls, start |-> rec.start, failed |-> rec.failed,
     seen |-> rec.seen, ret |-> rec.ret]
Outcomes(outs) == {[heap |-> o.heap, owned |-> o.owned, rec |-> Observable(o.rec)] : o \in outs}
AsMalloc(rec) == [rec EXCEPT !.op = "SCMalloc"]

\* the part of C10 that does not concern the text of the diagnostic: the call has
\* the same outcomes, the failure test and the value yielded are the same, and the
\* fatal path ends in the same exit status
C10_SameButDiagnostic ==
    \A t \in DOMAIN th :
        LET rec == th[t] IN
        /\ Ready(t) => \A a \in Sizes :
            Outcomes(SCReallocOut(t, NULL, a)) = Outcomes(SCMallocOut(t, a))
        /\ rec.op = "SCRealloc" /\ rec.x = NULL /\ rec.pc = "check" =>
            /\ Failed(build, rec) = Failed(build, AsMalloc(rec))
            /\ Observable(Done(rec, TRUE, engine_stage))
                   = Observable(Done(AsMalloc(rec), TRUE, engine_stage))
        /\ rec.op = "SCRealloc" /\ rec.x = NULL /\ rec.pc = "exited" =>
            exit_status = <<EXIT_FAILURE>>

\* C10 as stated: SCRealloc(NULL, a) does what SCMalloc(a) does, the diagnostic of
\* the fatal path included.
C10_Original ==
    /\ C10_SameButDiagnostic
    /\ \A t \in DOMAIN th :
        LET rec == th[t] IN
        rec.op = "SCRealloc" /\ rec.x = NULL /\ rec.pc \in {"log2", "exit", "exited"} =>
            LogOf(t) \in {<<MemAllocDiag(build, AsMalloc(rec), t)>>,
                          <<MemAllocDiag(build, AsMalloc(rec), t), FatalDiag(t)>>}

\* C10 amended: SCRealloc(NULL, a) does what SCMalloc(a) does: the same outcomes of
\* the call, the same NULL outside SURICATA_INIT, and in SURICATA_INIT the same two
\* records and exit, except that its SC_ERR_MEM_ALLOC record names SCRealloc.
C10_Amended ==
    /\ C10_SameButDiagnostic
    /\ \A t \in DOMAIN th :
        LET rec == th[t] IN
        rec.op = "SCRealloc" /\ rec.x = NULL /\ rec.pc \in {"log2", "exit", "exited"} =>
            /\ LogOf(t)[1].name = "SCRealloc"
            /\ [i \in 1..Len(LogOf(t)) |-> [LogOf(t)[i] EXCEPT !.name =
                    IF i = 1 THEN "SCMalloc" ELSE @]]
                 \in {<<MemAllocDiag(build, AsMalloc(rec), t)>>,
                      <<MemAllocDiag(build, AsMalloc(rec), t), FatalDiag(t)>>}

C10_Witness ==
    \E t \in DOMAIN th :
        th[t].op = "SCRealloc" /\ th[t].x = NULL /\ th[t].pc = "exited" /\ th[t].a > 0

====
